---- MODULE Spec2Model ----
(***************************************************************************)
(* The tunnel manager of the HLE add-on (backend/tunnel_manager.py) and    *)
(* the two places of backend/main.py that drive it outside a request       *)
(* (lifespan, update_config).                                              *)
(*                                                                         *)
(* The manager runs on one asyncio event loop: code between two awaits is  *)
(* atomic, and every await (process spawn, the bounded wait for a process  *)
(* to exit, the poller's sleep and its relay query, gather in              *)
(* shutdown_all) is a point where any other task may run.  Each action     *)
(* below is one such atomic stretch of one coroutine.                      *)
(***************************************************************************)
EXTENDS Integers, Sequences, FiniteSets, TLC

\* ------------------------------------------------------------------ bounds

\* Tunnels ever created by add_tunnel (each gets a fresh id 1, 2, ...).
MaxTunnels == 1
\* Child processes ever spawned successfully (each gets a fresh handle).
MaxSpawns == 2
\* Manager coroutines (API operations) in flight at the same time.
MaxOps == 1
\* Restarts of the managing process.
MaxRestarts == 1
\* Ticks of one poller (PollAttempts in the source).
MaxTicks == 1

\* -------------------------------------------------------- program constants

\* for _ in range(15)
PollAttempts == 15

\* ------------------------------------------------------------------ values

\* Python's None for a string-valued field.
None == "None"
\* _processes.get(id) when id has no entry; pid of a status without process.
NoProc == 0

URLs == {"u1", "u2"}
Labels == {"l1", "l2"}
Subs == {"s1"}

VARIABLES
    store,          \* DATA_FILE: id -> TunnelConfig
    processes,      \* _processes: id -> process handle
    connected,      \* _connected
    user_stopped,   \* _user_stopped
    procs,          \* every process ever spawned: handle -> [tid, st]
    nextId,         \* the next fresh id of uuid.uuid4()
    key,            \* os.environ["HLE_API_KEY"] is set and non-empty
    tasks,          \* the manager coroutines in flight, by slot
    pollers,        \* the _detect_subdomain tasks alive
    phase,          \* lifespan: "starting", "up", "stopping", "down"
    restarts,       \* restarts of the managing process so far
    ret             \* the call that returned in the last step (history)

vars == <<store, processes, connected, user_stopped, procs, nextId, key,
          tasks, pollers, phase, restarts, ret>>

\* the slots of the coroutines in flight
Slots == DOMAIN tasks

Idle == [op |-> "idle"]
NoRet == [op |-> "none"]

\* ------------------------------------------------------------- persistence

\* tunnels[tid] = cfg on a loaded mapping
Put(f, k, v) == [x \in (DOMAIN f) \cup {k} |-> IF x = k THEN v ELSE f[x]]

\* tunnels.pop(tid, None) on a loaded mapping
Pop(f, k) == [x \in (DOMAIN f) \ {k} |-> f[x]]

\* dict.get(tid): None (here NoProc) when absent
Get(f, k) == IF k \in DOMAIN f THEN f[k] ELSE NoProc

\* x or None
OrNone(x) == IF x \in {None, ""} THEN None ELSE x

\* ------------------------------------------------------ process management

\* proc is not None and proc.returncode is None
_is_running(p) == p # NoProc /\ procs[p].st # "exited"

\* asyncio.create_subprocess_exec succeeded: a new handle, returncode None
Spawned(tid) == Append(procs, [tid |-> tid, st |-> "running"])

\* proc.kill(): SIGKILL is sent; returncode stays None until the loop reaps it
Kill(ps, p) == [ps EXCEPT ![p].st = "killed"]

\* asyncio.create_task(_detect_subdomain(cfg.id, cfg.service_url, cfg.label))
\* B: the iterations of its loop; gen: the handle registered with it (history)
NewPoller(cfg, p, B) ==
    [id |-> cfg.id, service_url |-> cfg.service_url, label |-> cfg.label,
     left |-> B, pc |-> "sleep", gen |-> p]

\* ------------------------------------------------------------------ status

PublicUrl(sub) == <<"https://", sub, ".hle.world">>

\* the two branches of "not running" exchanged
StateSwapped(tid) ==
    IF ~_is_running(Get(processes, tid))
      THEN (IF tid \in user_stopped THEN "FAILED" ELSE "STOPPED")
      ELSE (IF tid \in connected THEN "CONNECTED" ELSE "CONNECTING")

\* the test of _connected negated
StateInverted(tid) ==
    IF ~_is_running(Get(processes, tid))
      THEN (IF tid \in user_stopped THEN "STOPPED" ELSE "FAILED")
      ELSE (IF tid \notin connected THEN "CONNECTED" ELSE "CONNECTING")

\* the state of _make_status
State(tid) ==
    IF ~_is_running(Get(processes, tid))
      THEN (IF tid \in user_stopped THEN "STOPPED" ELSE "FAILED")
      ELSE (IF tid \in connected THEN "CONNECTED" ELSE "CONNECTING")

_make_status(tid, cfg) ==
    [id |-> tid,
     state |-> State(tid),
     public_url |-> IF cfg.subdomain # None THEN PublicUrl(cfg.subdomain)
                                         ELSE <<>>,
     pid |-> IF _is_running(Get(processes, tid)) THEN Get(processes, tid)
                                                 ELSE NoProc]

NoStatus == [id |-> 0, state |-> "none", public_url |-> <<>>, pid |-> NoProc]

get_tunnel(tid) ==
    IF tid \in DOMAIN store THEN _make_status(tid, store[tid]) ELSE NoStatus

list_tunnels == {_make_status(tid, store[tid]) : tid \in DOMAIN store}

\* ------------------------------------------------------------------ inputs
\*
\* A config is modelled by the fields the manager itself reads or writes (id,
\* service_url, label, api_key, subdomain); name, auth_mode, verify_ssl and
\* websocket_enabled are only copied into the command line of the child.

\* AddTunnelRequest bodies
AddRequests ==
    {[service_url |-> "u1", label |-> "l1", api_key |-> ""]}

\* UpdateTunnelRequest bodies: the fields explicitly present (model_fields_set)
\* and their values
UpdateRequests ==
    {<<>>,
     [f \in {"label"} |-> "l2"],
     [f \in {"service_url"} |-> "u2"]}

\* one registration reported by the relay
LiveEntries ==
    [service_url : URLs, service_label : Labels \cup {None},
     subdomain : Subs \cup {None}]

\* answers of hle_api.list_live_tunnels(): a list of registrations
RelayAnswers == {<<>>} \cup {<<t>> : t \in LiveEntries}

\* ------------------------------------------------------------------- steps

\* the managing process starts for the first time, with room for O coroutines
InitOf(O) ==
    /\ store = <<>>
    /\ processes = <<>>
    /\ connected = {}
    /\ user_stopped = {}
    /\ procs = <<>>
    /\ nextId = 1
    /\ key \in BOOLEAN
    /\ tasks = [k \in 1..O |-> Idle]
    /\ pollers = {}
    /\ phase = "starting"
    /\ restarts = 0
    /\ ret = NoRet

\* a coroutine is created in the lowest free slot
Free(k) == tasks[k] = Idle /\ \A j \in Slots : j < k => tasks[j] # Idle

Return(k, r) == tasks' = [tasks EXCEPT ![k] = Idle] /\ ret' = r

Suspend(k, t) == tasks' = [tasks EXCEPT ![k] = t] /\ ret' = NoRet

\* the outcome of a call: op, tunnel id, returned (TRUE) or raised (FALSE)
Outcome(op, tid, ok) == [op |-> op, id |-> tid, ok |-> ok]

\* ---- the environment: a child process exits (crash, bad key, a signal)

ProcExit(p) ==
    /\ procs[p].st # "exited"
    /\ procs' = [procs EXCEPT ![p].st = "exited"]
    /\ ret' = NoRet
    /\ UNCHANGED <<store, processes, connected, user_stopped, nextId, key,
                   tasks, pollers, phase, restarts>>

\* ---- the bounded wait for a process to exit (stop, update, remove)
\*
\*     proc.terminate()
\*     try:    await asyncio.wait_for(proc.wait(), timeout=5.0)
\*     except asyncio.TimeoutError: proc.kill()

\* wait_for without its timeout: the timer never fires
NoTimer == FALSE

\* the timeout=5.0 timer of wait_for has fired (elapsed time is not modelled:
\* the timer may have fired at any step after the wait began)
TimerFired == TRUE

\* the await is over: proc.wait() returned or the timer fired
WaitOver(p) == procs[p].st = "exited" \/ TimerFired

\* TimeoutError was raised: the process had not exited when the timer fired
TimedOut(p) == procs[p].st # "exited"

\* the process table after the wait: a kill is issued on timeout
AfterWait(p) == IF TimedOut(p) THEN Kill(procs, p) ELSE procs

\* ---- add_tunnel

AddCall(k, req, T) ==
    /\ phase = "up" /\ Free(k)
    /\ nextId <= T
    /\ LET cfg == [id |-> nextId, service_url |-> req.service_url,
                   label |-> req.label, api_key |-> OrNone(req.api_key),
                   subdomain |-> None]
       IN  Suspend(k, [op |-> "add", pc |-> "spawn", id |-> nextId,
                       cfg |-> cfg, tunnels |-> store])
    /\ nextId' = nextId + 1
    /\ UNCHANGED <<store, processes, connected, user_stopped, procs, key,
                   pollers, phase, restarts>>

\* tunnels[cfg.id] = cfg; _save_all(tunnels), on the mapping loaded at entry
AddSave(t) == Put(t.tunnels, t.id, t.cfg)

\* await _spawn(cfg) returned a handle: the rest of add_tunnel
AddLaunched(k, B) ==
    /\ procs' = Spawned(tasks[k].id)
    /\ processes' = Put(processes, tasks[k].id, Len(procs) + 1)
    /\ store' = AddSave(tasks[k])
    /\ pollers' = pollers \cup {NewPoller(tasks[k].cfg, Len(procs) + 1, B)}
    /\ Return(k, [op |-> "add", id |-> tasks[k].id, ok |-> TRUE,
                  launched |-> TRUE])

\* a launcher failure caught inside add_tunnel: the config is stored anyway
AddOutcomeCaught(k, launched, B) ==
    IF launched
      THEN AddLaunched(k, B)
      ELSE /\ store' = AddSave(tasks[k])
           /\ Return(k, [op |-> "add", id |-> tasks[k].id, ok |-> TRUE,
                         launched |-> FALSE])
           /\ UNCHANGED <<procs, processes, pollers>>

\* add_tunnel after await _spawn(cfg): it returned a handle, or it raised and
\* the exception leaves add_tunnel
AddOutcome(k, launched, B) ==
    IF launched
      THEN AddLaunched(k, B)
      ELSE /\ Return(k, [op |-> "add", id |-> tasks[k].id, ok |-> FALSE,
                         launched |-> FALSE])
           /\ UNCHANGED <<procs, processes, store, pollers>>

\* the launcher's answers: it can fail at any time, and succeeds at most S times
Launches(S) == {b \in BOOLEAN : b => Len(procs) < S}

AddResume(k, S, B) ==
    /\ tasks[k].op = "add"
    /\ \E launched \in Launches(S) : AddOutcome(k, launched, B)
    /\ UNCHANGED <<connected, user_stopped, nextId, key, phase, restarts>>

\* ---- stop_tunnel

StopCall(k, tid) ==
    /\ phase = "up" /\ Free(k)
    /\ connected' = connected \ {tid}
    /\ user_stopped' = user_stopped \cup {tid}
    /\ IF _is_running(Get(processes, tid))
         THEN Suspend(k, [op |-> "stop", pc |-> "wait", id |-> tid,
                          proc |-> processes[tid]])
         ELSE Return(k, Outcome("stop", tid, TRUE))
    /\ UNCHANGED <<store, processes, procs, nextId, key, pollers, phase,
                   restarts>>

StopResume(k) ==
    /\ tasks[k].op = "stop"
    /\ WaitOver(tasks[k].proc)
    /\ procs' = AfterWait(tasks[k].proc)
    /\ Return(k, Outcome("stop", tasks[k].id, TRUE))
    /\ UNCHANGED <<store, processes, connected, user_stopped, nextId, key,
                   pollers, phase, restarts>>

\* ---- remove_tunnel

\* tunnels = _load_all(); tunnels.pop(tunnel_id, None); _save_all(tunnels)
RemoveSave(tid) == Pop(store, tid)

\* remove_tunnel without _user_stopped.add(tunnel_id)
RemoveCallUnflagged(k, tid) ==
    /\ phase = "up" /\ Free(k)
    /\ connected' = connected \ {tid}
    /\ user_stopped' = user_stopped
    /\ processes' = Pop(processes, tid)
    /\ IF _is_running(Get(processes, tid))
         THEN /\ Suspend(k, [op |-> "remove", pc |-> "wait", id |-> tid,
                             proc |-> processes[tid]])
              /\ store' = store
         ELSE /\ store' = RemoveSave(tid)
              /\ Return(k, Outcome("remove", tid, TRUE))
    /\ UNCHANGED <<procs, nextId, key, pollers, phase, restarts>>

RemoveCall(k, tid) ==
    /\ phase = "up" /\ Free(k)
    /\ connected' = connected \ {tid}
    /\ user_stopped' = user_stopped \cup {tid}
    /\ processes' = Pop(processes, tid)
    /\ IF _is_running(Get(processes, tid))
         THEN /\ Suspend(k, [op |-> "remove", pc |-> "wait", id |-> tid,
                             proc |-> processes[tid]])
              /\ store' = store
         ELSE /\ store' = RemoveSave(tid)
              /\ Return(k, Outcome("remove", tid, TRUE))
    /\ UNCHANGED <<procs, nextId, key, pollers, phase, restarts>>

RemoveResume(k) ==
    /\ tasks[k].op = "remove"
    /\ WaitOver(tasks[k].proc)
    /\ procs' = AfterWait(tasks[k].proc)
    /\ store' = RemoveSave(tasks[k].id)
    /\ Return(k, Outcome("remove", tasks[k].id, TRUE))
    /\ UNCHANGED <<processes, connected, user_stopped, nextId, key, pollers,
                   phase, restarts>>

\* ---- start_tunnel

\* start_tunnel without the test of the running handle: it always respawns
StartCallRespawns(k, tid) ==
    /\ phase = "up" /\ Free(k)
    /\ IF tid \notin DOMAIN store
         THEN /\ Return(k, Outcome("start", tid, FALSE))
              /\ UNCHANGED <<connected, user_stopped>>
         ELSE /\ connected' = connected \ {tid}
              /\ user_stopped' = user_stopped \ {tid}
              /\ Suspend(k, [op |-> "start", pc |-> "spawn",
                             id |-> tid, cfg |-> store[tid]])
    /\ UNCHANGED <<store, processes, procs, nextId, key, pollers, phase,
                   restarts>>

\* start_tunnel discarding the flags before it looks the config up
StartCallEager(k, tid) ==
    /\ phase = "up" /\ Free(k)
    /\ IF tid \notin DOMAIN store
         THEN /\ Return(k, Outcome("start", tid, FALSE))
              /\ connected' = connected \ {tid}
              /\ user_stopped' = user_stopped \ {tid}
         ELSE IF _is_running(Get(processes, tid))
                THEN /\ Return(k, Outcome("start", tid, TRUE))
                     /\ UNCHANGED <<connected, user_stopped>>
                ELSE /\ connected' = connected \ {tid}
                     /\ user_stopped' = user_stopped \ {tid}
                     /\ Suspend(k, [op |-> "start", pc |-> "spawn",
                                    id |-> tid, cfg |-> store[tid]])
    /\ UNCHANGED <<store, processes, procs, nextId, key, pollers, phase,
                   restarts>>

StartCall(k, tid) ==
    /\ phase = "up" /\ Free(k)
    /\ IF tid \notin DOMAIN store
         THEN /\ Return(k, Outcome("start", tid, FALSE))
              /\ UNCHANGED <<connected, user_stopped>>
         ELSE IF _is_running(Get(processes, tid))
                THEN /\ Return(k, Outcome("start", tid, TRUE))
                     /\ UNCHANGED <<connected, user_stopped>>
                ELSE /\ connected' = connected \ {tid}
                     /\ user_stopped' = user_stopped \ {tid}
                     /\ Suspend(k, [op |-> "start", pc |-> "spawn",
                                    id |-> tid, cfg |-> store[tid]])
    /\ UNCHANGED <<store, processes, procs, nextId, key, pollers, phase,
                   restarts>>

StartResume(k, S, B) ==
    /\ tasks[k].op = "start"
    /\ \E launched \in Launches(S) :
         IF launched
           THEN /\ procs' = Spawned(tasks[k].id)
                /\ processes' = Put(processes, tasks[k].id, Len(procs) + 1)
                /\ pollers' = pollers \cup
                                {NewPoller(tasks[k].cfg, Len(procs) + 1, B)}
                /\ Return(k, Outcome("start", tasks[k].id, TRUE))
           ELSE /\ Return(k, Outcome("start", tasks[k].id, FALSE))
                /\ UNCHANGED <<procs, processes, pollers>>
    /\ UNCHANGED <<store, connected, user_stopped, nextId, key, phase,
                   restarts>>

\* ---- update_tunnel

\* changed = req.model_dump(exclude_none=True) alone: an api_key given as ""
\* is stored as it is, one given as null is not applied
ChangedDump(req) == [f \in {g \in DOMAIN req : req[g] # None} |-> req[f]]

\* changed = req.model_dump(exclude_none=True), then api_key as given
\* (req.api_key or None) when it is in model_fields_set
Changed(req) ==
    [f \in {g \in DOMAIN req : req[g] # None \/ g = "api_key"} |->
        IF f = "api_key" THEN OrNone(req[f]) ELSE req[f]]

LabelOrUrlChanged(cfg, ch) ==
    \/ ("label" \in DOMAIN ch /\ ch["label"] # cfg.label)
    \/ ("service_url" \in DOMAIN ch /\ ch["service_url"] # cfg.service_url)

\* setattr(cfg, field, value) for the changed fields, then the subdomain
Updated(cfg, req) ==
    LET ch == Changed(req)
    IN  [f \in DOMAIN cfg |->
            IF f = "subdomain" /\ LabelOrUrlChanged(cfg, ch) THEN None
            ELSE IF f \in DOMAIN ch THEN ch[f] ELSE cfg[f]]

UpdateCall(k, tid, req) ==
    /\ phase = "up" /\ Free(k)
    /\ IF tid \notin DOMAIN store
         THEN /\ Return(k, Outcome("update", tid, FALSE))
              /\ UNCHANGED <<store, connected, user_stopped>>
         ELSE LET cfg == Updated(store[tid], req)
                  t   == [op |-> "update", id |-> tid, cfg |-> cfg,
                          old |-> Get(processes, tid),
                          changed |-> LabelOrUrlChanged(store[tid],
                                                        Changed(req)),
                          sub0 |-> store[tid].subdomain]
              IN  /\ store' = Put(store, tid, cfg)
                  /\ IF _is_running(Get(processes, tid))
                       THEN /\ Suspend(k, t @@ [pc |-> "wait",
                                                proc |-> processes[tid]])
                            /\ UNCHANGED <<connected, user_stopped>>
                       ELSE /\ Suspend(k, t @@ [pc |-> "spawn",
                                                proc |-> NoProc])
                            /\ connected' = connected \ {tid}
                            /\ user_stopped' = user_stopped \ {tid}
    /\ UNCHANGED <<processes, procs, nextId, key, pollers, phase, restarts>>

UpdateWaited(k) ==
    /\ tasks[k].op = "update" /\ tasks[k].pc = "wait"
    /\ WaitOver(tasks[k].proc)
    /\ procs' = AfterWait(tasks[k].proc)
    /\ connected' = connected \ {tasks[k].id}
    /\ user_stopped' = user_stopped \ {tasks[k].id}
    /\ Suspend(k, [tasks[k] EXCEPT !.pc = "spawn"])
    /\ UNCHANGED <<store, processes, nextId, key, pollers, phase, restarts>>

UpdateResume(k, S, B) ==
    /\ tasks[k].op = "update" /\ tasks[k].pc = "spawn"
    /\ \E launched \in Launches(S) :
         IF launched
           THEN /\ procs' = Spawned(tasks[k].id)
                /\ processes' = Put(processes, tasks[k].id, Len(procs) + 1)
                /\ pollers' = pollers \cup
                                {NewPoller(tasks[k].cfg, Len(procs) + 1, B)}
                /\ Return(k, [op |-> "update", id |-> tasks[k].id,
                              ok |-> TRUE, old |-> tasks[k].old,
                              changed |-> tasks[k].changed,
                              sub0 |-> tasks[k].sub0])
           ELSE /\ Return(k, Outcome("update", tasks[k].id, FALSE))
                /\ UNCHANGED <<procs, processes, pollers>>
    /\ UNCHANGED <<store, connected, user_stopped, nextId, key, phase,
                   restarts>>

\* ---- restore_all

RECURSIVE Values(_, _)
\* _load_all().values(): the configs in the order of the file, which is the
\* order in which add_tunnel created them
Values(f, n) ==
    IF n >= nextId THEN <<>>
    ELSE IF n \in DOMAIN f THEN <<f[n]>> \o Values(f, n + 1)
         ELSE Values(f, n + 1)

\* the loop without "if _is_running(...): continue"
SkipNone(rest) == rest

RECURSIVE Skip(_)
\* if _is_running(_processes.get(cfg.id)): continue
Skip(rest) ==
    IF rest = <<>> THEN <<>>
    ELSE IF _is_running(Get(processes, Head(rest).id)) THEN Skip(Tail(rest))
         ELSE rest

\* the test of the key left out
NoKeyIgnored(k) == FALSE

\* if not os.environ.get("HLE_API_KEY"): return
NoKey(k) == ~k

\* restore_all up to its first await, in slot k; boot: called by lifespan
RestoreCall(k, hasKey, boot) ==
    LET rest == IF NoKey(hasKey) THEN <<>> ELSE Skip(Values(store, 1))
    IN  IF rest = <<>>
          THEN /\ Return(k, [op |-> "restore", id |-> 0, ok |-> TRUE,
                             nokey |-> ~hasKey, boot |-> boot])
               /\ phase' = "up"
          ELSE /\ Suspend(k, [op |-> "restore", pc |-> "spawn",
                              rest |-> rest, nokey |-> ~hasKey,
                              boot |-> boot])
               /\ phase' = phase

\* lifespan: await tm.restore_all() before the application serves requests
Startup ==
    /\ phase = "starting" /\ tasks[1] = Idle
    /\ RestoreCall(1, key, TRUE)
    /\ UNCHANGED <<store, processes, connected, user_stopped, procs, nextId,
                   key, pollers, restarts>>

\* main.update_config: os.environ["HLE_API_KEY"] = req.api_key, restore_all()
UpdateConfig(k, newKey) ==
    /\ phase = "up" /\ Free(k)
    /\ key' = newKey
    /\ RestoreCall(k, newKey, FALSE)
    /\ UNCHANGED <<store, processes, connected, user_stopped, procs, nextId,
                   pollers, restarts>>

RestoreResume(k, S, B) ==
    /\ tasks[k].op = "restore"
    /\ LET cfg  == Head(tasks[k].rest)
           rest == Skip(Tail(tasks[k].rest))
       IN  /\ \E launched \in Launches(S) :
                IF launched
                  THEN /\ procs' = Spawned(cfg.id)
                       /\ processes' = Put(processes, cfg.id, Len(procs) + 1)
                       /\ user_stopped' = user_stopped \ {cfg.id}
                       /\ pollers' = pollers \cup
                                       {NewPoller(cfg, Len(procs) + 1, B)}
                  ELSE UNCHANGED <<procs, processes, user_stopped, pollers>>
           /\ IF rest = <<>>
                THEN /\ Return(k, [op |-> "restore", id |-> 0, ok |-> TRUE,
                                   nokey |-> tasks[k].nokey,
                                   boot |-> tasks[k].boot])
                     /\ phase' = "up"
                ELSE /\ Suspend(k, [tasks[k] EXCEPT !.rest = rest])
                     /\ phase' = phase
    /\ UNCHANGED <<store, connected, nextId, key, restarts>>

\* ---- shutdown_all and the restart of the managing process

\* the handles shutdown_all signals and then waits for
Awaited == {processes[tid] : tid \in {i \in DOMAIN processes :
                                         _is_running(processes[i])}}

\* lifespan, after the yield: await tm.shutdown_all(), up to the gather.  The
\* server runs it once the requests in flight have been answered; the pollers
\* are background tasks and go on while it waits.
Teardown ==
    /\ phase = "up" /\ \A k \in Slots : tasks[k] = Idle
    /\ IF DOMAIN processes = {}
         THEN /\ Return(1, Outcome("shutdown", 0, TRUE))
              /\ phase' = "down"
         ELSE /\ Suspend(1, [op |-> "shutdown", pc |-> "wait",
                             waits |-> Awaited])
              /\ phase' = "stopping"
    /\ UNCHANGED <<store, processes, connected, user_stopped, procs, nextId,
                   key, pollers, restarts>>

\* asyncio.gather(*[proc.wait() ...], return_exceptions=True) is over
Gathered(ws) == \A p \in ws : procs[p].st = "exited"

ShutdownDone ==
    /\ tasks[1].op = "shutdown"
    /\ Gathered(tasks[1].waits)
    /\ Return(1, Outcome("shutdown", 0, TRUE))
    /\ phase' = "down"
    /\ UNCHANGED <<store, processes, connected, user_stopped, procs, nextId,
                   key, pollers, restarts>>

\* a restart that keeps the user-stopped flags, as if they were persisted
RestartKeepsFlags(R) ==
    /\ phase = "down" /\ restarts < R
    /\ restarts' = restarts + 1
    /\ processes' = <<>>
    /\ connected' = {}
    /\ tasks' = [k \in Slots |-> Idle]
    /\ pollers' = {}
    /\ phase' = "starting"
    /\ ret' = NoRet
    /\ UNCHANGED <<store, procs, nextId, key, user_stopped>>

\* the managing process starts again: the module globals are fresh, the data
\* file and the environment's key are what they were
Restart(R) ==
    /\ phase = "down" /\ restarts < R
    /\ restarts' = restarts + 1
    /\ processes' = <<>>
    /\ connected' = {}
    /\ user_stopped' = {}
    /\ tasks' = [k \in Slots |-> Idle]
    /\ pollers' = {}
    /\ phase' = "starting"
    /\ ret' = NoRet
    /\ UNCHANGED <<store, procs, nextId, key>>

\* ---- _detect_subdomain

\* t.get("subdomain") or t.get("service_label")
SubdomainOf(t) == IF t.subdomain # None THEN t.subdomain ELSE t.service_label

\* the match by label alone
MatchesLabelOnly(t, q) == t.service_label = q.label

\* t.get("service_url") == service_url or t.get("service_label") == label
Matches(t, q) == t.service_url = q.service_url \/ t.service_label = q.label

RECURSIVE Detected(_, _)
\* the subdomain the loop over live ends with, None when it falls through
Detected(live, q) ==
    IF live = <<>> THEN None
    ELSE IF Matches(Head(live), q) /\ SubdomainOf(Head(live)) # None
           THEN SubdomainOf(Head(live))
           ELSE Detected(Tail(live), q)

\* the subdomain saved without the test "if cfg_id in tunnels"
PollSaveBlind(tid, sub) ==
    Put(store, tid, [id |-> tid, service_url |-> "u1", label |-> "l1",
                     api_key |-> None, subdomain |-> sub])

\* tunnels = _load_all(); if cfg_id in tunnels: ...subdomain = ...; _save_all
PollSave(tid, sub) ==
    IF tid \in DOMAIN store THEN [store EXCEPT ![tid].subdomain = sub]
                            ELSE store

\* the loop as "while True": the attempts are never used up
NextTickForever(q) ==
    (pollers \ {q}) \cup {[q EXCEPT !.pc = "sleep"]}

\* the next iteration of for _ in range(...), or the end of the task
NextTick(q) ==
    IF q.left > 1
      THEN (pollers \ {q}) \cup {[q EXCEPT !.left = q.left - 1,
                                           !.pc = "sleep"]}
      ELSE pollers \ {q}

\* await asyncio.sleep(2) is over: the check of the handle, then the query
PollWake(q) ==
    /\ phase # "down"
    /\ q.pc = "sleep"
    /\ pollers' = IF _is_running(Get(processes, q.id))
                    THEN (pollers \ {q}) \cup {[q EXCEPT !.pc = "query"]}
                    ELSE pollers \ {q}
    /\ ret' = NoRet
    /\ UNCHANGED <<store, processes, connected, user_stopped, procs, nextId,
                   key, tasks, phase, restarts>>

\* await hle_api.list_live_tunnels() returned live
PollAnswer(q, live) ==
    /\ phase # "down"
    /\ q.pc = "query"
    /\ IF Detected(live, q) # None
         THEN /\ store' = PollSave(q.id, Detected(live, q))
              /\ connected' = connected \cup {q.id}
              /\ pollers' = pollers \ {q}
         ELSE /\ pollers' = NextTick(q)
              /\ UNCHANGED <<store, connected>>
    /\ ret' = NoRet
    /\ UNCHANGED <<processes, user_stopped, procs, nextId, key, tasks, phase,
                   restarts>>

\* the handler around the whole loop: a failed query ends the poller
PollErrorEnds(q) ==
    /\ phase # "down"
    /\ q.pc = "query"
    /\ pollers' = pollers \ {q}
    /\ ret' = NoRet
    /\ UNCHANGED <<store, processes, connected, user_stopped, procs, nextId,
                   key, tasks, phase, restarts>>

\* await hle_api.list_live_tunnels() raised: except Exception: pass
PollError(q) ==
    /\ phase # "down"
    /\ q.pc = "query"
    /\ pollers' = NextTick(q)
    /\ ret' = NoRet
    /\ UNCHANGED <<store, processes, connected, user_stopped, procs, nextId,
                   key, tasks, phase, restarts>>

\* ------------------------------------------------------------ specification

\* the tunnel ids a caller can name: ids are random (uuid4) and a caller learns
\* one only from add_tunnel's answer or from list_tunnels, so every id in a
\* request is the id of a tunnel that was stored at some time
KnownIds == DOMAIN store \cup {procs[p].tid : p \in DOMAIN procs}

Init == InitOf(MaxOps)

Next ==
    \/ \E k \in Slots, req \in AddRequests : AddCall(k, req, MaxTunnels)
    \/ \E k \in Slots : AddResume(k, MaxSpawns, MaxTicks)
    \/ \E k \in Slots, tid \in KnownIds, req \in UpdateRequests :
          UpdateCall(k, tid, req)
    \/ \E k \in Slots : UpdateWaited(k)
    \/ \E k \in Slots : UpdateResume(k, MaxSpawns, MaxTicks)
    \/ \E k \in Slots, tid \in KnownIds : RemoveCall(k, tid)
    \/ \E k \in Slots : RemoveResume(k)
    \/ \E k \in Slots, tid \in KnownIds : StartCall(k, tid)
    \/ \E k \in Slots : StartResume(k, MaxSpawns, MaxTicks)
    \/ \E k \in Slots, tid \in KnownIds : StopCall(k, tid)
    \/ \E k \in Slots : StopResume(k)
    \/ Startup
    \/ \E k \in Slots, newKey \in BOOLEAN : UpdateConfig(k, newKey)
    \/ \E k \in Slots : RestoreResume(k, MaxSpawns, MaxTicks)
    \/ Teardown
    \/ ShutdownDone
    \/ Restart(MaxRestarts)
    \/ \E p \in 1..Len(procs) : ProcExit(p)
    \/ \E q \in pollers : PollWake(q)
    \/ \E q \in pollers, live \in RelayAnswers : PollAnswer(q, live)
    \/ \E q \in pollers : PollError(q)

Spec == Init /\ [][Next]_vars

\* What the event loop and the operating system guarantee: a coroutine whose
\* await is over is run again, and a process that was sent SIGKILL exits.
\* Nothing makes a process exit that was only sent SIGTERM, or no signal.
KilledExit(p) == procs[p].st = "killed" /\ ProcExit(p)

Fairness ==
    /\ \A k \in 1..MaxOps :
          /\ WF_vars(AddResume(k, MaxSpawns, MaxTicks))
          /\ WF_vars(UpdateWaited(k))
          /\ WF_vars(UpdateResume(k, MaxSpawns, MaxTicks))
          /\ WF_vars(RemoveResume(k))
          /\ WF_vars(StartResume(k, MaxSpawns, MaxTicks))
          /\ WF_vars(StopResume(k))
          /\ WF_vars(RestoreResume(k, MaxSpawns, MaxTicks))
    /\ WF_vars(ShutdownDone)
    /\ \A p \in 1..MaxSpawns : WF_vars(p <= Len(procs) /\ KilledExit(p))

FairSpec == Init /\ [][Next]_vars /\ Fairness

\* ---- operations issued one at a time
\*
\* The callers of the API issue the operations on a tunnel one after the
\* other (the manager does not serialize them itself): one coroutine slot.

SerialSpec == InitOf(1) /\ [][Next]_vars

\* ---- the restore of a data file with several tunnels
\*
\* The managing process starts on the data file an earlier run left behind.

\* Configs in the data file at the first start.
RestoreTunnels == 2
\* Child processes ever spawned successfully.
RestoreSpawns == 3

\* the configs an earlier run can have left: a subdomain is there or not
StoredConfigs(n) ==
    {f \in [1..n -> [id : 1..n, service_url : URLs, label : Labels,
                     api_key : {None}, subdomain : Subs \cup {None}]] :
        \A i \in 1..n :
            /\ f[i].id = i
            /\ f[i].service_url = (IF i = 1 THEN "u1" ELSE "u2")
            /\ f[i].label = (IF i = 1 THEN "l1" ELSE "l2")}

RestoreInit ==
    /\ store \in StoredConfigs(RestoreTunnels)
    /\ processes = <<>>
    /\ connected = {}
    /\ user_stopped = {}
    /\ procs = <<>>
    /\ nextId = RestoreTunnels + 1
    /\ key \in BOOLEAN
    /\ tasks = [k \in 1..MaxOps |-> Idle]
    /\ pollers = {}
    /\ phase = "starting"
    /\ restarts = 0
    /\ ret = NoRet

\* answers of the relay while the tunnels of the file come up
RestoreAnswers ==
    {<<>>, <<[service_url |-> "u1", service_label |-> "l1",
              subdomain |-> "s1"]>>}

RestoreNext ==
    \/ Startup
    \/ \E k \in Slots, newKey \in BOOLEAN : UpdateConfig(k, newKey)
    \/ \E k \in Slots : RestoreResume(k, RestoreSpawns, MaxTicks)
    \/ \E k \in Slots, tid \in KnownIds : StopCall(k, tid)
    \/ \E k \in Slots : StopResume(k)
    \/ Teardown
    \/ ShutdownDone
    \/ Restart(MaxRestarts)
    \/ \E p \in 1..Len(procs) : ProcExit(p)
    \/ \E q \in pollers : PollWake(q)
    \/ \E q \in pollers, live \in RestoreAnswers : PollAnswer(q, live)
    \/ \E q \in pollers : PollError(q)

RestoreSpec == RestoreInit /\ [][RestoreNext]_vars

\* ---- a new tunnel and its poller, with the poller's full budget
\*
\* The relay lists every live registration of the account, so an answer can
\* hold several entries, of this tunnel and of others.

\* Registrations in one answer of the relay.
MaxLive == 2

PollSubs == {"s1", "s2"}

PollEntries ==
    [service_url : URLs, service_label : Labels \cup {None},
     subdomain : PollSubs \cup {None}]

PollAnswers ==
    UNION {[1..n -> PollEntries] : n \in 0..MaxLive}

PollNext ==
    \/ Startup
    \/ \E k \in Slots, req \in AddRequests : AddCall(k, req, MaxTunnels)
    \/ \E k \in Slots : AddResume(k, MaxSpawns, PollAttempts)
    \/ \E p \in 1..Len(procs) : ProcExit(p)
    \/ \E q \in pollers : PollWake(q)
    \/ \E q \in pollers, live \in PollAnswers : PollAnswer(q, live)
    \/ \E q \in pollers : PollError(q)

PollSpec == Init /\ [][PollNext]_vars

\* the event loop ends every sleep, and the relay client answers or raises
PollFairness ==
    /\ WF_vars(\E q \in pollers : PollWake(q))
    /\ WF_vars(\E q \in pollers :
                  \/ PollError(q)
                  \/ \E live \in PollAnswers : PollAnswer(q, live))

FairPollSpec == Init /\ [][PollNext]_vars /\ PollFairness

\* ---- partial updates of stored configs
\*
\* The managing process starts with no credential on a data file of several
\* tunnels, so none is spawned; update_tunnel is then called with every
\* combination of present and omitted fields.  The pollers its respawns start
\* are still in their first sleep.

\* Configs in the data file.
UpdateTunnels == 2
\* Child processes ever spawned successfully.
UpdateSpawns == 1

\* the data files: every value of the first config's fields, the others fixed
UpdateStores ==
    {f \in [1..UpdateTunnels ->
               [id : 1..UpdateTunnels, service_url : URLs, label : Labels,
                api_key : {None, "k1"}, subdomain : Subs \cup {None}]] :
        \A i \in 1..UpdateTunnels :
            /\ f[i].id = i
            /\ i > 1 => f[i] = [id |-> i, service_url |-> "u2",
                                label |-> "l2", api_key |-> "k1",
                                subdomain |-> "s1"]}

UpdateInit ==
    /\ store \in UpdateStores
    /\ processes = <<>>
    /\ connected = {}
    /\ user_stopped = {}
    /\ procs = <<>>
    /\ nextId = UpdateTunnels + 1
    /\ key = FALSE
    /\ tasks = [k \in 1..MaxOps |-> Idle]
    /\ pollers = {}
    /\ phase = "starting"
    /\ restarts = 0
    /\ ret = NoRet

\* the fields of UpdateTunnelRequest the manager reads, and the values a
\* request can give each: a value, an explicit null, for api_key also ""
UpdateFields == {"service_url", "label", "api_key"}

FieldValues(f) ==
    IF f = "service_url" THEN {"u2", None}
    ELSE IF f = "label" THEN {"l2", None}
    ELSE {"", "k2", None}

\* UpdateTunnelRequest bodies: any subset of the fields present
PartialRequests ==
    UNION {{r \in [F -> URLs \cup Labels \cup {"", "k2", None}] :
               \A f \in F : r[f] \in FieldValues(f)} :
           F \in SUBSET UpdateFields}

UpdateNext ==
    \/ Startup
    \/ \E k \in Slots, tid \in KnownIds, req \in PartialRequests :
          UpdateCall(k, tid, req)
    \/ \E k \in Slots : UpdateWaited(k)
    \/ \E k \in Slots : UpdateResume(k, UpdateSpawns, MaxTicks)
    \/ \E p \in 1..Len(procs) : ProcExit(p)

UpdateSpec == UpdateInit /\ [][UpdateNext]_vars

\* two operations in flight on two tunnels: add_tunnel, remove_tunnel and
\* the restore_all of update_config, with the pollers
ConcTunnels == 2

ConcSpawns == 2

ConcOps == 2

ConcInit == InitOf(ConcOps)

ConcNext ==
    \/ Startup
    \/ \E k \in Slots, req \in AddRequests : AddCall(k, req, ConcTunnels)
    \/ \E k \in Slots : AddResume(k, ConcSpawns, MaxTicks)
    \/ \E k \in Slots, tid \in KnownIds : RemoveCall(k, tid)
    \/ \E k \in Slots : RemoveResume(k)
    \/ \E k \in Slots, newKey \in BOOLEAN : UpdateConfig(k, newKey)
    \/ \E k \in Slots : RestoreResume(k, ConcSpawns, MaxTicks)
    \/ \E p \in 1..Len(procs) : ProcExit(p)
    \/ \E q \in pollers : PollWake(q)
    \/ \E q \in pollers, live \in RestoreAnswers : PollAnswer(q, live)
    \/ \E q \in pollers : PollError(q)

ConcSpec == ConcInit /\ [][ConcNext]_vars

\* ------------------------------------------------------------------ claims

\* the handle registered for tid exists and its returncode is still None
Running(tid) ==
    tid \in DOMAIN processes /\ procs[processes[tid]].st \in {"running", "killed"}

\* the status table of section 4.5
Table(running, stopped, conn) ==
    IF ~running /\ stopped THEN "STOPPED"
    ELSE IF ~running /\ ~stopped THEN "FAILED"
    ELSE IF running /\ conn THEN "CONNECTED"
    ELSE "CONNECTING"

\* C1: for every tunnel id with a persisted config, the status of get_tunnel and
\* list_tunnels is the table's function of (running, user-stopped, connected),
\* pid is present iff the process is running, and public_url is present iff
\* the stored subdomain is.
C1_StatusTable ==
    \A tid \in DOMAIN store :
        LET s == get_tunnel(tid)
        IN  /\ s \in list_tunnels
            /\ s.state = Table(Running(tid), tid \in user_stopped,
                               tid \in connected)
            /\ (s.pid # NoProc) <=> Running(tid)
            /\ Running(tid) => s.pid = processes[tid]
            /\ (s.public_url # <<>>) <=> (store[tid].subdomain # None)
            /\ store[tid].subdomain # None =>
                   s.public_url = PublicUrl(store[tid].subdomain)

\* a tunnel whose process exited on its own after the relay confirmed it:
\* FAILED, no pid, with a public_url
C1_Witness ==
    \E tid \in DOMAIN store :
        /\ get_tunnel(tid).state = "FAILED"
        /\ get_tunnel(tid).pid = NoProc
        /\ get_tunnel(tid).public_url # <<>>

\* C2: a get_tunnel(id) right after stop_tunnel(id) returns yields STOPPED,
\* however the child reacted to the termination signal.
C2_StopThenStopped ==
    (ret.op = "stop" /\ ret.id \in DOMAIN store) =>
        get_tunnel(ret.id).state = "STOPPED"

\* C3 as stated: when the launcher cannot start the executable, add_tunnel
\* still returns a config that is in the store, and its status is FAILED.
C3_AddStoresOnLaunchFailure ==
    (ret.op = "add" /\ ~ret.launched) =>
        /\ ret.ok
        /\ ret.id \in DOMAIN store
        /\ get_tunnel(ret.id).state = "FAILED"

\* C3 amended: when the launcher cannot start the executable, the error leaves
\* add_tunnel, and nothing is kept for the new id: no config in the store
\* (get_tunnel gives none), no handle in the registry, no poller.
C3_AddRaisesOnLaunchFailure ==
    (ret.op = "add" /\ ~ret.launched) =>
        /\ ~ret.ok
        /\ ret.id \notin DOMAIN store
        /\ get_tunnel(ret.id) = NoStatus
        /\ ret.id \notin DOMAIN processes
        /\ \A q \in pollers : q.id # ret.id

\* add_tunnel has just ended on a launcher failure
C3_Witness == ret.op = "add" /\ ~ret.launched /\ ~ret.ok

\* C4: when remove_tunnel(id) returns, get_tunnel(id) is none and list_tunnels
\* has no entry for id, and no step of a poller started for id (a step after
\* which that poller has moved on or ended) brings id back.
C4_RemovedStaysRemoved ==
    [][/\ \A tid \in 1..nextId :
            (ret'.op = "remove" /\ ret'.id = tid) =>
                /\ tid \notin DOMAIN store'
                /\ get_tunnel(tid)' = NoStatus
                /\ \A s \in list_tunnels' : s.id # tid
       /\ \A q \in pollers :
            (q \notin pollers' /\ q.id \notin DOMAIN store) =>
                /\ q.id \notin DOMAIN store'
                /\ get_tunnel(q.id)' = NoStatus]_vars

\* remove_tunnel(id) has returned while a poller of id waits for the relay
C4_Witness ==
    /\ ret.op = "remove"
    /\ \E q \in pollers : q.id = ret.id /\ q.pc = "query"

\* C5: when remove_tunnel(id) has returned, id has no entry in the registry and
\* is in neither session flag set.
C5_RemoveClearsMemory ==
    ret.op = "remove" =>
        /\ ret.id \notin DOMAIN processes
        /\ ret.id \notin connected
        /\ ret.id \notin user_stopped

\* C6: right after add_tunnel returns, the new tunnel's status is CONNECTING or
\* FAILED, never CONNECTED, and its pid is present iff the child was launched.
C6_AfterAdd ==
    (ret.op = "add" /\ ret.ok) =>
        /\ ret.id \in DOMAIN store
        /\ get_tunnel(ret.id).state \in {"CONNECTING", "FAILED"}
        /\ (get_tunnel(ret.id).pid # NoProc) <=> ret.launched

\* add_tunnel has just returned the config of a launched tunnel
C6_Witness ==
    ret.op = "add" /\ ret.ok /\ ret.launched /\ ret.id \in DOMAIN store

\* C7: when update_tunnel(id, req) with a changed label or service_url
\* returns, the persisted config of id has no subdomain and the registered
\* handle is a new one.
C7_UpdateClearsSubdomain ==
    (ret.op = "update" /\ ret.ok /\ ret.id \in DOMAIN store) =>
        /\ ret.changed => store[ret.id].subdomain = None
        /\ Get(processes, ret.id) # ret.old

\* C8: shutdown_all always returns, also when a child does not exit on the
\* termination signal.
C8_ShutdownReturns == (phase = "stopping") ~> (phase = "down")

\* coroutine k of stop, update or remove is in its bounded wait for handle p
InWait(k, p) ==
    /\ tasks[k].op \in {"stop", "update", "remove"}
    /\ tasks[k].pc = "wait"
    /\ tasks[k].proc = p

\* C9: stop_tunnel, update_tunnel and remove_tunnel never hang on process
\* termination: a call in its bounded wait goes on to complete, and the
\* process it waited for has then exited or has been sent the forced kill.
C9_BoundedWait ==
    \A k \in 1..MaxOps : \A p \in 1..MaxSpawns :
        InWait(k, p) ~>
            (tasks[k] = Idle /\ p <= Len(procs)
                /\ procs[p].st \in {"exited", "killed"})

\* a call has returned after its wait timed out: the kill was issued
C9_Witness ==
    /\ ret.op \in {"stop", "remove", "update"} /\ ret.ok
    /\ \E p \in 1..Len(procs) : procs[p].st = "killed"

\* C10 as stated: after restore_all ran with no credential, every persisted
\* tunnel is reported FAILED or STOPPED.
C10_NoKeyAllDown ==
    (ret.op = "restore" /\ ret.nokey) =>
        \A tid \in DOMAIN store :
            get_tunnel(tid).state \in {"FAILED", "STOPPED"}

\* C10 amended: restore_all with no credential creates no handle, starts no
\* poller, changes no flag and no record, so every tunnel keeps its status;
\* called at startup, it leaves every persisted tunnel FAILED.
C10_NoKeyNoChange ==
    [][(ret'.op = "restore" /\ ret'.nokey) =>
          /\ UNCHANGED <<store, processes, connected, user_stopped, procs,
                         pollers>>
          /\ \A tid \in DOMAIN store : get_tunnel(tid)' = get_tunnel(tid)
          /\ ret'.boot =>
                \A tid \in DOMAIN store' : get_tunnel(tid)'.state = "FAILED"
      ]_vars

\* restore_all has returned at startup with no credential and a config stored
C10_Witness ==
    ret.op = "restore" /\ ret.nokey /\ ret.boot /\ DOMAIN store # {}

\* the ids of the configs restore_all has still to go through
Todo(t) == IF t.op = "restore" THEN {t.rest[i].id : i \in DOMAIN t.rest}
                               ELSE {}

\* the step spawned a process for tid, registered its handle, cleared tid's
\* user-stopped flag and started exactly one poller, for tid
SpawnedFor(tid) ==
    /\ Len(procs') = Len(procs) + 1
    /\ procs'[Len(procs')] = [tid |-> tid, st |-> "running"]
    /\ \A p \in DOMAIN procs : procs'[p] = procs[p]
    /\ tid \in DOMAIN processes' /\ processes'[tid] = Len(procs')
    /\ tid \notin user_stopped'
    /\ \A i \in user_stopped' \cup user_stopped :
          i # tid => (i \in user_stopped' <=> i \in user_stopped)
    /\ \E q \in pollers' :
          q \notin pollers /\ q.id = tid /\ pollers' = pollers \cup {q}

\* C11: restore_all with a credential goes through the persisted configs: a
\* config is passed over only if its handle is running, every other one gets
\* a spawn attempt; an attempt either fails, which changes nothing, is not
\* raised and does not end the batch, or registers a new running handle,
\* clears the user-stopped flag and starts one poller; the handles of all
\* other ids are left as they are.
C11_RestoreBatch ==
    [][\A k \in Slots :
        LET before == tasks[k]
            after  == tasks'[k]
        IN  /\ (before = Idle /\ after.op = "restore") =>
                  /\ Todo(after) \subseteq DOMAIN store
                  /\ \A tid \in DOMAIN store \ Todo(after) : Running(tid)
                  /\ ~Running(Head(after.rest).id)
                  /\ UNCHANGED <<store, processes, procs, user_stopped,
                                 pollers>>
            /\ (before = Idle /\ ret'.op = "restore" /\ ~ret'.nokey
                    /\ \A j \in Slots : tasks[j].op # "restore") =>
                  /\ ret'.ok
                  /\ \A tid \in DOMAIN store : Running(tid)
                  /\ UNCHANGED <<store, processes, procs, user_stopped,
                                 pollers>>
            /\ (before.op = "restore" /\ after # before) =>
                  LET tid == Head(before.rest).id
                  IN  /\ Todo(after) \subseteq Todo(before) \ {tid}
                      /\ \A i \in (Todo(before) \ {tid}) \ Todo(after) :
                            Running(i)
                      /\ after.op = "restore" =>
                            ~Running(Head(after.rest).id)
                      /\ \/ SpawnedFor(tid)
                         \/ UNCHANGED <<procs, processes, user_stopped,
                                        pollers>>
                      /\ \A i \in DOMAIN processes \ {tid} :
                            /\ i \in DOMAIN processes'
                            /\ processes'[i] = processes[i]
                      /\ after = Idle => (ret'.op = "restore" /\ ret'.ok)
                      /\ store' = store
      ]_vars

\* restore_all has returned: the attempt for the first config failed, the
\* second config was spawned after it
C11_Witness ==
    /\ ret.op = "restore" /\ ~ret.nokey
    /\ {1, 2} \subseteq DOMAIN store
    /\ 1 \notin DOMAIN processes
    /\ Running(2)
    /\ \E q \in pollers : q.id = 2

\* C17: shutdown_all leaves the persisted configs as they are; after the
\* restart the registry and both flag sets are empty; the restore_all of the
\* start, with a credential, then makes a spawn attempt for every persisted
\* config, one after the other, whatever its flags were before the restart.
C17_RestartRebuilds ==
    [][/\ (phase \in {"up", "stopping"} /\ phase' \in {"stopping", "down"}
               /\ phase' # phase) =>
            store' = store
       /\ (phase = "down" /\ phase' = "starting") =>
            /\ store' = store
            /\ processes' = <<>>
            /\ connected' = {} /\ user_stopped' = {}
       /\ (phase = "starting" /\ tasks[1] = Idle /\ key
               /\ tasks'[1] # tasks[1]) =>
            /\ Todo(tasks'[1]) = DOMAIN store
            /\ UNCHANGED <<processes, connected, user_stopped>>
       /\ (tasks[1].op = "restore" /\ tasks[1].boot
               /\ tasks'[1] # tasks[1]) =>
            LET tid == Head(tasks[1].rest).id
            IN  /\ Todo(tasks'[1]) = Todo(tasks[1]) \ {tid}
                /\ SpawnedFor(tid) \/ UNCHANGED <<procs, processes>>
      ]_vars

\* after a restart, restore_all has spawned a new process for a tunnel that
\* had a process before the restart
C17_Witness ==
    /\ restarts = 1
    /\ ret.op = "restore" /\ ret.boot /\ ~ret.nokey
    /\ \E tid \in DOMAIN store :
          /\ Running(tid)
          /\ \E p \in 1..(processes[tid] - 1) :
                procs[p].tid = tid /\ procs[p].st = "exited"

\* the relay's answer live has a registration with the service_url of tunnel
\* tid and a non-empty subdomain, at position i
Reports(live, i, tid) ==
    /\ i \in DOMAIN live
    /\ live[i].service_url = store[tid].service_url
    /\ live[i].subdomain # None

\* poller q of a tunnel that was added, is CONNECTING with no public_url, and
\* whose process keeps running, gets the answer live within its budget
Polled(q, live) ==
    /\ PollAnswer(q, live)
    /\ q.left \in 1..PollAttempts
    /\ q.id \in DOMAIN store
    /\ Running(q.id) /\ Running(q.id)'
    /\ get_tunnel(q.id).state = "CONNECTING"
    /\ get_tunnel(q.id).public_url = <<>>

\* the status of tid after the step is CONNECTED, its public_url is built from
\* sub, and sub is on its persisted record
ConfirmedWith(tid, sub) ==
    /\ get_tunnel(tid)'.state = "CONNECTED"
    /\ get_tunnel(tid)'.public_url = PublicUrl(sub)
    /\ store'[tid].subdomain = sub

\* C12 as stated: when the relay's answer has a registration with the tunnel's
\* service_url and a subdomain, the tunnel becomes CONNECTED with a public_url
\* built from that subdomain, which is persisted.
C12_ConnectedWithReported ==
    [][\A q \in pollers, live \in PollAnswers :
          Polled(q, live) =>
              \A i \in DOMAIN live :
                  Reports(live, i, q.id) =>
                      ConfirmedWith(q.id, live[i].subdomain)]_vars

\* the registration the tunnel is confirmed by: the first of the answer that
\* has the service_url or the label the tunnel was spawned with, and a
\* subdomain or, failing that, a label
Confirms(t, q) ==
    /\ t.service_url = q.service_url \/ t.service_label = q.label
    /\ t.subdomain # None \/ t.service_label # None

FirstConfirming(live, q) ==
    CHOOSE i \in DOMAIN live :
        /\ Confirms(live[i], q)
        /\ \A j \in 1..(i - 1) : ~Confirms(live[j], q)

\* C12 amended: when the relay's answer has a registration with the tunnel's
\* service_url and a subdomain, the tunnel becomes CONNECTED with a public_url,
\* built from the subdomain (or, when it has none, the label) of the first
\* registration of the answer that matches the tunnel by service_url or by
\* label; that name is persisted.  A new tunnel is CONNECTING with no
\* public_url and has a poller with the full budget of attempts.
C12_ConnectedWithFirstMatch ==
    [][/\ \A q \in pollers, live \in PollAnswers :
            (Polled(q, live) /\ \E i \in DOMAIN live : Reports(live, i, q.id))
              => LET t == live[FirstConfirming(live, q)]
                 IN  ConfirmedWith(q.id, IF t.subdomain # None
                                           THEN t.subdomain
                                           ELSE t.service_label)
       /\ \A tid \in 1..nextId :
            (ret'.op = "add" /\ ret'.ok /\ ret'.id = tid) =>
                /\ get_tunnel(tid)'.state = "CONNECTING"
                /\ get_tunnel(tid)'.public_url = <<>>
                /\ \E q \in pollers' :
                      q.id = tid /\ q.left = PollAttempts /\ q.pc = "sleep"
      ]_vars

\* a tunnel confirmed by its poller: CONNECTED, with the public_url of the
\* reported subdomain, which is on its record
C12_Witness ==
    \E tid \in DOMAIN store :
        /\ get_tunnel(tid).state = "CONNECTED"
        /\ get_tunnel(tid).public_url = PublicUrl("s2")
        /\ store[tid].subdomain = "s2"
        /\ \A q \in pollers : q.id # tid

\* C16 as stated: update_tunnel(id, req) leaves every config field that req
\* omits at its stored value, keeps the id, clears the stored api_key when req
\* gives it as "", and leaves the configs of all other ids as they are.
C16_OnlyGivenFields ==
    [][\A k \in Slots, tid \in DOMAIN store, req \in PartialRequests :
          UpdateCall(k, tid, req) =>
              /\ DOMAIN store' = DOMAIN store
              /\ store'[tid].id = tid
              /\ \A f \in DOMAIN store[tid] :
                    f \notin DOMAIN req => store'[tid][f] = store[tid][f]
              /\ ("api_key" \in DOMAIN req /\ req["api_key"] = "") =>
                    store'[tid].api_key = None
              /\ \A i \in DOMAIN store \ {tid} : store'[i] = store[i]]_vars

\* req gives field f a value other than the one stored for tid
GivenOther(req, f, tid) ==
    f \in DOMAIN req /\ req[f] # None /\ req[f] # store[tid][f]

\* C16 amended: update_tunnel(id, req) leaves every field that req omits at
\* its stored value, except the subdomain, which is cleared when req gives a
\* label or a service_url other than the stored one and kept otherwise; a
\* service_url or label given with a value is stored; the id stays; an api_key
\* given as "" (or as null) clears the stored one, a given value replaces it,
\* an omitted api_key leaves it; the configs of all other ids are as before.
C16_OnlyGivenFieldsAndSubdomain ==
    [][\A k \in Slots, tid \in DOMAIN store, req \in PartialRequests :
          UpdateCall(k, tid, req) =>
              /\ DOMAIN store' = DOMAIN store
              /\ DOMAIN store'[tid] = DOMAIN store[tid]
              /\ store'[tid].id = tid
              /\ \A f \in DOMAIN store[tid] \ {"subdomain"} :
                    f \notin DOMAIN req => store'[tid][f] = store[tid][f]
              /\ \A f \in {"service_url", "label"} :
                    (f \in DOMAIN req /\ req[f] # None) =>
                        store'[tid][f] = req[f]
              /\ "api_key" \in DOMAIN req =>
                    store'[tid].api_key =
                        (IF req["api_key"] \in {"", None} THEN None
                                                          ELSE req["api_key"])
              /\ store'[tid].subdomain =
                    (IF GivenOther(req, "label", tid)
                          \/ GivenOther(req, "service_url", tid)
                       THEN None
                       ELSE store[tid].subdomain)
              /\ \A i \in DOMAIN store \ {tid} : store'[i] = store[i]]_vars

\* update_tunnel has saved a config whose api_key override it cleared and
\* whose subdomain it dropped because the label or the service_url changed
C16_Witness ==
    \E k \in Slots :
        /\ tasks[k].op = "update"
        /\ tasks[k].changed
        /\ tasks[k].sub0 # None
        /\ store[tasks[k].id].subdomain = None
        /\ store[tasks[k].id].api_key = None
        /\ tasks[k].cfg = store[tasks[k].id]

\* no start_tunnel coroutine is suspended in its spawn
NoStartInFlight == \A k \in Slots : tasks[k].op # "start"

\* C13: start_tunnel(id) on a tunnel whose process is running returns at once
\* and changes nothing: the same handle is registered, no process is spawned
\* or signalled, no poller is started, the flags and the store are unchanged;
\* and it never gets as far as the spawn.
C13_StartWhileRunning ==
    [][/\ (ret'.op = "start" /\ NoStartInFlight
               /\ ret'.id \in DOMAIN store /\ Running(ret'.id)) =>
            /\ ret'.ok
            /\ UNCHANGED <<store, processes, connected, user_stopped, procs,
                           pollers>>
       /\ \A k \in Slots :
            (tasks[k] = Idle /\ tasks'[k].op = "start") =>
                ~Running(tasks'[k].id)
      ]_vars

\* start_tunnel has returned on a running tunnel whose only process ever is
\* the one add_tunnel spawned
C13_Witness ==
    /\ ret.op = "start" /\ ret.ok
    /\ Running(ret.id)
    /\ Len(procs) = 1 /\ processes[ret.id] = 1
    /\ Cardinality(pollers) <= 1

\* no update_tunnel or start_tunnel coroutine is suspended
NoneInFlight == \A k \in Slots : tasks[k].op \notin {"update", "start"}

\* C14: update_tunnel(id, ...) and start_tunnel(id) on an id with no persisted
\* config raise the not-found error at once and change nothing: the store,
\* the registry, both flag sets, the processes and the pollers.
C14_NotFound ==
    [][/\ (ret'.op \in {"update", "start"} /\ NoneInFlight
               /\ ret'.id \notin DOMAIN store) =>
            /\ ~ret'.ok
            /\ UNCHANGED <<store, processes, connected, user_stopped, procs,
                           pollers>>
       /\ \A k \in Slots :
            (tasks[k] = Idle /\ tasks'[k].op \in {"update", "start"}) =>
                tasks'[k].id \in DOMAIN store
      ]_vars

\* a call on an id that was removed, its removal's flag still set, has failed
C14_Witness ==
    /\ ret.op \in {"update", "start"} /\ ~ret.ok
    /\ ret.id \notin DOMAIN store
    /\ ret.id \in user_stopped

\* C15: after start_tunnel(id) returns without error, after update_tunnel(id)
\* returns, and after the restore_all of a (re)start of the managing process,
\* id is not in the user-stopped set.
C15_FlagReset ==
    /\ (ret.op \in {"start", "update"} /\ ret.ok) =>
            ret.id \notin user_stopped
    /\ (ret.op = "restore" /\ ret.boot) => user_stopped = {}

\* poller q was started for a handle that is no longer the registered one
Superseded(q) == q.id \in DOMAIN processes /\ processes[q.id] # q.gen

\* C18: a step of a poller whose handle has been replaced by a later spawn
\* neither adds its id to the connected set nor writes a subdomain.
C18_SupersededPollerIdle ==
    [][\A q \in pollers :
          (Superseded(q) /\ q \notin pollers' /\ phase # "down") =>
              /\ connected' = connected
              /\ store' = store]_vars

\* C19: a poller tick that finds the handle missing or not running ends the
\* poller and changes neither the store nor the flags; and a relay answer that
\* arrives when the registered process is no longer running (the tunnel was
\* stopped, or its process exited, also while the query was in flight) adds
\* nothing to the connected set and writes no subdomain.
C19_NoLateConfirmation ==
    [][\A q \in pollers :
          (q \notin pollers' /\ phase # "down") =>
              /\ (q.pc = "sleep" /\ ~Running(q.id)) =>
                    /\ UNCHANGED <<store, connected, user_stopped>>
                    /\ pollers' = pollers \ {q}
              /\ (q.pc = "query" /\ q.id \in DOMAIN processes
                                 /\ ~Running(q.id)) =>
                    /\ connected' = connected
                    /\ store' = store]_vars

\* C20: while remove_tunnel(id) is in progress and nothing else runs, the
\* status of id is STOPPED, or none.
C20_StoppedWhileRemoving ==
    \A k \in Slots :
        tasks[k].op = "remove" =>
            get_tunnel(tasks[k].id).state \in {"STOPPED", "none"}

\* remove_tunnel waits for the process while a poller of the tunnel waits for
\* the relay, and the record is still there
C20_Witness ==
    \E k \in Slots :
        /\ tasks[k].op = "remove"
        /\ tasks[k].id \in DOMAIN store
        /\ get_tunnel(tasks[k].id).state = "STOPPED"
        /\ \E q \in pollers : q.id = tasks[k].id /\ q.pc = "query"

\* the processes spawned for tid that have not exited
Alive(tid) == {p \in DOMAIN procs : procs[p].tid = tid /\ procs[p].st # "exited"}

\* C24: at every moment at most one process spawned for a tunnel id has not
\* yet exited, also after a termination wait that timed out and issued a kill.
C24_OneChildPerTunnel ==
    \A p \in DOMAIN procs : Cardinality(Alive(procs[p].tid)) <= 1

\* C26: a step that spawns a process for id leaves id not CONNECTED: the
\* status is CONNECTED only after a poller has marked id connected since.
C26_NotConnectedAfterRespawn ==
    [][Len(procs') > Len(procs) =>
          \A tid \in DOMAIN store' :
              procs'[Len(procs')].tid = tid =>
                  get_tunnel(tid)'.state # "CONNECTED"]_vars

\* C27: a tunnel whose status is CONNECTED has a stored subdomain and a
\* public_url, in every state, the suspension points of update_tunnel and
\* add_tunnel included.
C27_ConnectedHasUrl ==
    \A tid \in DOMAIN store :
        get_tunnel(tid).state = "CONNECTED" =>
            /\ store[tid].subdomain # None
            /\ get_tunnel(tid).public_url # <<>>

\* C21: a relay query that fails on a tick changes nothing but the poller:
\* store, registry, flags, processes and callers are left alone, nothing is
\* returned or raised, and with attempts left the poller sleeps for its next
\* tick.
C21_QueryFailureHarmless ==
    [][\A q \in pollers :
          PollError(q) =>
              /\ UNCHANGED <<store, processes, connected, user_stopped,
                             procs, tasks, key, phase>>
              /\ ret' = NoRet
              /\ q.left > 1 =>
                    [q EXCEPT !.left = q.left - 1, !.pc = "sleep"]
                        \in pollers']_vars

\* a poller past its first tick, the tunnel running and still unconfirmed
C21_Witness ==
    \E q \in pollers :
        /\ q.left = PollAttempts - 1
        /\ q.pc = "sleep"
        /\ Running(q.id)
        /\ q.id \in DOMAIN store
        /\ store[q.id].subdomain = None
        /\ q.id \notin connected

\* the pollers of the same spawn as q
After(q, P) == {r \in P : r.id = q.id /\ r.gen = q.gen}

\* C22: every poller ends after at most 15 ticks: it has between 1 and 15
\* attempts left, an answered or failed query uses one of them up and the
\* last one ends it, and every poller does end; a poller that ends without
\* marking its tunnel connected leaves the connected set and the store as
\* they were, and a tunnel with no poller stays unconfirmed (CONNECTING
\* while its process runs).
C22_PollerBounded ==
    /\ [][\A q \in pollers :
             /\ q.left \in 1..PollAttempts
             /\ (q.pc = "query" /\ q \notin pollers') =>
                   /\ After(q, pollers') \subseteq
                          {[q EXCEPT !.left = q.left - 1, !.pc = "sleep"]}
                   /\ q.left = 1 => After(q, pollers') = {}
             /\ (After(q, pollers') = {} /\ q.id \notin connected') =>
                   /\ connected' = connected
                   /\ store' = store]_vars
    /\ [][\A tid \in DOMAIN store :
             (tid \notin connected /\ \A q \in pollers : q.id # tid) =>
                 /\ tid \notin connected'
                 /\ Running(tid)' => get_tunnel(tid)'.state = "CONNECTING"]_vars
    /\ <>[](pollers = {})

\* the poller used up all its attempts and the tunnel is still CONNECTING
C22_Witness ==
    /\ pollers = {}
    /\ ret = NoRet
    /\ \E tid \in DOMAIN store :
          /\ Running(tid)
          /\ get_tunnel(tid).state = "CONNECTING"
          /\ store[tid].subdomain = None

\* the operations that work on one tunnel id
OnOne == {"add", "update", "remove", "start", "stop"}

\* C23: a step of an operation on tunnel A leaves the stored record of every
\* other tunnel B as it was: B's subdomain and fields are kept, and a B that
\* was removed does not come back.
C23_OthersKept ==
    [][\A k \in Slots :
          (tasks[k].op \in OnOne /\ tasks'[k] # tasks[k]) =>
              \A B \in (DOMAIN store \cup DOMAIN store') \ {tasks[k].id} :
                  /\ B \in DOMAIN store
                  /\ B \in DOMAIN store'
                  /\ store'[B] = store[B]]_vars

\* C25: with no operation in progress, every running handle of the registry
\* belongs to an id that has a stored config.
C25_RegisteredHaveConfig ==
    (\A k \in Slots : tasks[k] = Idle) =>
        \A tid \in DOMAIN processes :
            Running(tid) => tid \in DOMAIN store

====
